---- MODULE Spec2Model ----
(***************************************************************************)
(* The request pipeline of the gateway in src/src/index.js: the auth and   *)
(* entitlement middleware, the token-bucket rate limiter and its refill    *)
(* timer, the route stack in registration order (route handlers and the    *)
(* module/feature guards), the proxy handlers and the readiness fan-out.   *)
(*                                                                         *)
(* JavaScript runs one callback at a time: a request advances from one     *)
(* await to the next in a single step, so every action below is the code   *)
(* executed between two suspension points of one request.                  *)
(***************************************************************************)
EXTENDS Integers, Sequences, FiniteSets, TLC

\* ---------------------------------------------------------------- bounds
\* Requests in flight at once when clients are served one after the other.
MaxSeq == 1
\* Requests in flight at once under concurrent load.
MaxConc == 2
\* Largest value process.env.RATE_TOKENS is set to.
MaxCeiling == 2

\* The default of Number(process.env.RATE_TOKENS || 200).
DefaultRateTokens == 200

SeqReqs == 1..MaxSeq
ConcReqs == 1..MaxConc
AllReqs == SeqReqs \cup ConcReqs

\* ------------------------------------------------------- request inputs
\* A path is the sequence of its segments; a route pattern is a sequence of
\* segments in which a member of Params stands for any one segment.
Params == {":id", ":code", ":businessId", ":accessKey", ":namespace", ":tenantId"}

\* The Authorization header: what precedes the credential and the credential.
\* An absent header reads as the empty string.
AbsentAuth == [prefix |-> "", rest |-> ""]
BasicAuth == [prefix |-> "Basic ", rest |-> "dXNlcjpwdw"]
EmptyBearer == [prefix |-> "Bearer ", rest |-> ""]
ForgedBearer == [prefix |-> "Bearer ", rest |-> "forged"]
BearerA == [prefix |-> "Bearer ", rest |-> "tokA"]
BearerB == [prefix |-> "Bearer ", rest |-> "tokB"]
BearerC == [prefix |-> "Bearer ", rest |-> "tokC"]

\* Principals: the claims jwt.verify decodes from the tokens that verify.
NoUser == [defined |-> FALSE, sub |-> "", orgId |-> <<>>, businesses |-> <<>>]
UserA == [defined |-> TRUE, sub |-> "alice", orgId |-> <<"org1">>, businesses |-> <<>>]
UserB == [defined |-> TRUE, sub |-> "bob", orgId |-> <<>>, businesses |-> <<"biz7", "biz8">>]
UserC == [defined |-> TRUE, sub |-> "carol", orgId |-> <<>>, businesses |-> <<>>]

\* Entitlement sets. A key maps to "T", "F" or "-" (the key is absent).
ModuleKeys == {"forms", "submissions", "discounts", "staff"}
FeatureKeys == {"reports", "i18n", "integrationHub", "exportScheduler"}
NoModules == [k \in ModuleKeys |-> "-"]
NoFeatures == [k \in FeatureKeys |-> "-"]
UndefinedEnt == [tag |-> "undefined", has |-> {}, modules |-> NoModules, features |-> NoFeatures]
NullEnt == [tag |-> "null", has |-> {}, modules |-> NoModules, features |-> NoFeatures]
\* { modules: {}, features: {} }
EmptyEnt == [tag |-> "object", has |-> {"modules", "features"},
             modules |-> NoModules, features |-> NoFeatures]
FormsOffEnt == [EmptyEnt EXCEPT !.modules = [NoModules EXCEPT !["forms"] = "F"]]
FormsOnEnt == [EmptyEnt EXCEPT !.modules = [NoModules EXCEPT !["forms"] = "T"]]
\* { features: { reports: false, i18n: false, integrationHub: false, exportScheduler: false } }
FeaturesOffEnt == [tag |-> "object", has |-> {"features"}, modules |-> NoModules,
                   features |-> [k \in FeatureKeys |-> "F"]]
FeaturesOnEnt == [tag |-> "object", has |-> {"features"}, modules |-> NoModules,
                  features |-> [k \in FeatureKeys |-> "T"]]

\* Response bodies.
NoBody == [none |-> TRUE]
NotFoundBody == [html |-> "Cannot"]

\* ------------------------------------------------- auth middleware (pure)
\* const openPaths = ['/healthz', '/readyz', '/auth/login'];
openPaths == {<<"healthz">>, <<"readyz">>, <<"auth", "login">>}

\* Variant: the bypass list matched as a list of prefixes.
IsOpenPath_prefix(path) ==
  \E o \in openPaths : Len(o) <= Len(path) /\ \A i \in 1..Len(o) : o[i] = path[i]

\* openPaths.includes(req.path)
IsOpenPath(path) == path \in openPaths

\* auth.startsWith('Bearer ') ? auth.slice(7) : null
\* (null is <<>>, a string t is <<t>>)
ExtractToken(auth) == IF auth.prefix = "Bearer " THEN <<auth.rest>> ELSE <<>>

\* Variant: only a null token counts as missing (token === null).
TokenMissing_nullOnly(tok) == tok = <<>>

\* !token : null and the empty string are falsy
TokenMissing(tok) == tok = <<>> \/ tok[1] = ""

\* jwt.verify(token, secret): the decoded claims, or a throw (defined FALSE)
JwtVerify(t) ==
  CASE t = "tokA" -> UserA
    [] t = "tokB" -> UserB
    [] t = "tokC" -> UserC
    [] OTHER -> NoUser

\* decoded.scopes?.orgId || decoded.scopes?.businesses?.[0] || 'default'
TenantId(user) ==
  IF user.orgId # <<>> THEN user.orgId[1]
  ELSE IF user.businesses # <<>> THEN user.businesses[1]
  ELSE "default"

\* process.env.ENTITLEMENTS_URL || 'http://localhost:7002/entitlements/' + tenantId
\* `+` binds tighter than `||`: the tenant is appended to the default
\* address only. A URL is the sequence of the strings concatenated; <<>>
\* stands for an unset variable.
EntitlementsUrl(e, tenantId) ==
  IF e.ENTITLEMENTS_URL # <<>> THEN <<e.ENTITLEMENTS_URL[1]>>
  ELSE <<"http://localhost:7002/entitlements/", tenantId>>

\* What the auth middleware does with a request before its first await:
\* "open" (next() at once), "missing" (401), "invalid" (401 from the outer
\* catch) or "verified" (the entitlement fetch is issued).
AuthOutcome(path, auth) ==
  IF IsOpenPath(path) THEN "open"
  ELSE IF TokenMissing(ExtractToken(auth)) THEN "missing"
  ELSE IF ~JwtVerify(ExtractToken(auth)[1]).defined THEN "invalid"
  ELSE "verified"

\* { message, requestId }
ErrBody(msg, id) == [message |-> msg, requestId |-> id]

\* ------------------------------------------------------ rate limiter (pure)
\* Number(process.env.RATE_TOKENS || 200); the variable is <<>> when unset.
RateCeiling(e) == IF e.RATE_TOKENS = <<>> THEN DefaultRateTokens ELSE e.RATE_TOKENS[1]

\* Variant: the guard reads TOKENS < 0.
RateLimit_admitsAtZero(tokens) ==
  IF tokens < 0 THEN [admit |-> FALSE, tokens |-> tokens]
  ELSE [admit |-> TRUE, tokens |-> tokens - 1]

\* Variant: the decrement comes before the guard (TOKENS -= 1 first).
RateLimit_chargesRejected(tokens) ==
  IF tokens <= 0 THEN [admit |-> FALSE, tokens |-> tokens - 1]
  ELSE [admit |-> TRUE, tokens |-> tokens - 1]

\* if (TOKENS <= 0) return 429; TOKENS -= 1; next();
RateLimit(tokens) ==
  IF tokens <= 0 THEN [admit |-> FALSE, tokens |-> tokens]
  ELSE [admit |-> TRUE, tokens |-> tokens - 1]

\* ------------------------------------------------------------- the guards
\* (req.entitlements && req.entitlements.features) || {}
Flags(ent) == IF ent.tag = "object" /\ "features" \in ent.has THEN ent.features ELSE NoFeatures
\* (req.entitlements && req.entitlements.modules) || {}
Mods(ent) == IF ent.tag = "object" /\ "modules" \in ent.has THEN ent.modules ELSE NoModules

\* Variant: the guard reads !flags[flag], which also denies a key that is
\* absent or null.
featureEnabled_falsy(flag, ent) == flag \in FeatureKeys /\ Flags(ent)[flag] = "T"

\* flags[flag] === false
featureEnabled(flag, ent) == ~(flag \in FeatureKeys /\ Flags(ent)[flag] = "F")
\* mods[moduleKey] === false
moduleEnabled(moduleKey, ent) == ~(moduleKey \in ModuleKeys /\ Mods(ent)[moduleKey] = "F")

\* -------------------------------------------------------- the route stack
\* app.get/post/patch/delete(path, handler) answering without a downstream call
Local(m, pat, h) ==
  [type |-> "route", method |-> m, pattern |-> pat, handler |-> h,
   base |-> "", label |-> "", key |-> ""]
\* app.<verb>(path, async handler) calling fetch(`${base}...`), with the
\* label of its 502 message
Proxy(m, pat, b, l) ==
  [type |-> "route", method |-> m, pattern |-> pat, handler |-> "proxy",
   base |-> b, label |-> l, key |-> ""]
\* app.use(prefix, moduleEnabled(key)) / app.use(prefix, featureEnabled(key))
Guard(kind, pat, k) ==
  [type |-> "use", method |-> "", pattern |-> pat, handler |-> kind,
   base |-> "", label |-> "", key |-> k]

\* Everything registered on the app after the rate limiter, in the order of
\* registration, which is the order Express tries the layers in.
Stack ==
  << Local("GET", <<"healthz">>, "healthz"),
     Local("GET", <<"readyz">>, "readyz"),
     Local("GET", <<"readyz", "full">>, "readyzFull"),
     Local("GET", <<"api", "v1", "me">>, "me"),
     Proxy("GET", <<"api", "org", ":id">>, "ORG_BASE", "org"),
     Proxy("POST", <<"api", "forms">>, "FORMS_BASE", "forms"),
     Proxy("GET", <<"api", "forms", ":id">>, "FORMS_BASE", "forms"),
     Proxy("PATCH", <<"api", "forms", ":id">>, "FORMS_BASE", "forms"),
     Proxy("DELETE", <<"api", "forms", ":id">>, "FORMS_BASE", "forms"),
     Proxy("GET", <<"api", "forms", "by-code", ":code">>, "FORMS_BASE", "forms"),
     Proxy("POST", <<"api", "franchise", ":id", "forms">>, "FORMS_BASE", "forms"),
     Proxy("POST", <<"api", "org">>, "ORG_BASE", "org"),
     Proxy("GET", <<"api", "brand">>, "ORG_BASE", "org"),
     Proxy("POST", <<"api", "brand">>, "ORG_BASE", "org"),
     Proxy("GET", <<"api", "business">>, "ORG_BASE", "org"),
     Proxy("POST", <<"api", "business">>, "ORG_BASE", "org"),
     Proxy("GET", <<"api", "business", ":id">>, "ORG_BASE", "org"),
     Proxy("PATCH", <<"api", "business", ":id">>, "ORG_BASE", "org"),
     Proxy("GET", <<"api", "franchise">>, "ORG_BASE", "org"),
     Proxy("POST", <<"api", "franchise">>, "ORG_BASE", "org"),
     Proxy("GET", <<"api", "franchise", ":id">>, "ORG_BASE", "org"),
     Proxy("PATCH", <<"api", "franchise", ":id">>, "ORG_BASE", "org"),
     Proxy("POST", <<"api", "submissions">>, "SUBMISSIONS_BASE", "submissions"),
     Proxy("GET", <<"api", "submissions", "by-business", ":businessId">>, "SUBMISSIONS_BASE", "submissions"),
     Proxy("GET", <<"api", "discounts", ":accessKey">>, "DISCOUNTS_BASE", "discounts"),
     Proxy("POST", <<"api", "discounts", "mark-used">>, "DISCOUNTS_BASE", "discounts"),
     Proxy("POST", <<"api", "staff">>, "STAFF_BASE", "staff"),
     Proxy("GET", <<"api", "staff">>, "STAFF_BASE", "staff"),
     Proxy("PATCH", <<"api", "staff", ":id">>, "STAFF_BASE", "staff"),
     Proxy("DELETE", <<"api", "staff", ":id">>, "STAFF_BASE", "staff"),
     Proxy("POST", <<"api", "staff", ":id", "schedule">>, "STAFF_BASE", "staff"),
     Proxy("GET", <<"api", "staff", ":id", "schedule">>, "STAFF_BASE", "staff"),
     Proxy("GET", <<"api", "notifications", "rules">>, "NOTIFY_BASE", "notifications"),
     Proxy("GET", <<"api", "reports", "live", ":businessId">>, "REPORT_BASE", "reporting"),
     Guard("module", <<"api", "forms">>, "forms"),
     Guard("module", <<"api", "submissions">>, "submissions"),
     Guard("module", <<"api", "discounts">>, "discounts"),
     Guard("module", <<"api", "staff">>, "staff"),
     Guard("feature", <<"api", "reports">>, "reports"),
     Guard("feature", <<"api", "i18n">>, "i18n"),
     Guard("feature", <<"api", "webhooks">>, "integrationHub"),
     Guard("feature", <<"api", "schedules">>, "exportScheduler"),
     Proxy("GET", <<"api", "i18n", ":namespace">>, "I18N_BASE", "translation"),
     Proxy("GET", <<"api", "flags", ":tenantId">>, "FLAGS_BASE", "feature-flags"),
     Proxy("GET", <<"api", "api-keys", ":tenantId">>, "API_PROG_BASE", "api-program"),
     Proxy("GET", <<"api", "search">>, "SEARCH_BASE", "search"),
     Proxy("GET", <<"api", "usage", ":tenantId">>, "METER_BASE", "metering"),
     Proxy("GET", <<"api", "webhooks">>, "INTEG_BASE", "integration-hub"),
     Proxy("GET", <<"api", "schedules">>, "EXPORT_BASE", "export-scheduler"),
     Proxy("POST", <<"api", "ai-ml", "analyze", "sentiment">>, "AI_ML_BASE", "ai-ml"),
     Proxy("POST", <<"api", "ai-ml", "analyze", "topics">>, "AI_ML_BASE", "ai-ml"),
     Proxy("GET", <<"api", "ai-ml", "insights", ":tenantId">>, "AI_ML_BASE", "ai-ml"),
     Proxy("POST", <<"api", "audit", "log">>, "AUDIT_BASE", "audit"),
     Proxy("GET", <<"api", "audit", ":tenantId">>, "AUDIT_BASE", "audit"),
     Proxy("GET", <<"api", "tenants", ":tenantId">>, "TENANT_ISOLATION_BASE", "tenant-isolation"),
     Proxy("POST", <<"api", "tenant-isolation", "validate-access">>, "TENANT_ISOLATION_BASE", "tenant-isolation") >>

\* A route matches a request of its verb whose path has the pattern's
\* length and agrees with it on every segment that is not a parameter.
RouteMatches(layer, method, path) ==
  /\ layer.method = method
  /\ Len(layer.pattern) = Len(path)
  /\ \A i \in 1..Len(path) : layer.pattern[i] \in Params \/ layer.pattern[i] = path[i]

\* Variant: the guard is mounted on the exact path (app.all(path, ...)).
UseMatches_exact(layer, path) == layer.pattern = path

\* app.use(prefix, ...) matches every verb and every path under the prefix.
UseMatches(layer, path) ==
  /\ Len(layer.pattern) <= Len(path)
  /\ \A i \in 1..Len(layer.pattern) : layer.pattern[i] = path[i]

LayerMatches(layer, method, path) ==
  IF layer.type = "use" THEN UseMatches(layer, path) ELSE RouteMatches(layer, method, path)

\* The guard a "use" layer holds lets the request through.
GuardAllows(layer, ent) ==
  IF layer.handler = "module" THEN moduleEnabled(layer.key, ent)
  ELSE featureEnabled(layer.key, ent)

\* The 403 body of a guard: { message } alone.
GuardBody(layer) ==
  IF layer.handler = "module" THEN [message |-> <<"Module disabled: ", layer.key>>]
  ELSE [message |-> <<"Feature disabled: ", layer.key>>]

\* Express walks the stack from layer i: a layer that does not match is
\* skipped, a guard answers 403 or calls next(), a route handler ends the
\* walk. Past the last layer Express itself answers 404. The result is the
\* layer that takes the request (index 0: none) and whether a guard denied.
RECURSIVE RouteFrom(_, _, _, _)
RouteFrom(i, method, path, ent) ==
  IF i > Len(Stack) THEN [layer |-> 0, denied |-> FALSE]
  ELSE IF ~LayerMatches(Stack[i], method, path) THEN RouteFrom(i + 1, method, path, ent)
  ELSE IF Stack[i].type = "use"
    THEN IF GuardAllows(Stack[i], ent) THEN RouteFrom(i + 1, method, path, ent)
         ELSE [layer |-> i, denied |-> TRUE]
  ELSE [layer |-> i, denied |-> FALSE]

\* ------------------------------------------------------------------ state
VARIABLES
  env,          \* process.env: the settings the code reads while running
  wrapped,      \* the route layers registered through wrapWrite, with their metric
  TOKENS,       \* let TOKENS: the shared admission counter
  reqs,         \* the requests in flight, by slot; the slot is the request id
  sinceRefill   \* history: requests admitted since TOKENS was last (re)filled

vars == <<env, wrapped, TOKENS, reqs, sinceRefill>>

\* The services GET /readyz/full probes.
Services == {"org", "forms", "submissions", "discounts", "staff"}
NoProbes == [s \in Services |-> "none"]

\* A free slot. A request holds: where its handler is suspended (pc), what
\* came in (method, path, auth), what the middleware attached (user,
\* entitlements), the response once sent (status, body), the route layer
\* that took it, the downstream status read so far, the readiness probes,
\* the metering notification of a wrapped handler (meter, meterBody), and
\* history (entitlement calls, downstream calls and metering notifications
\* issued, how the entitlement and the downstream call ended, whether the
\* rate limiter admitted the request).
Idle ==
  [pc |-> "idle", method |-> "", path |-> <<>>, auth |-> AbsentAuth,
   user |-> NoUser, entitlements |-> UndefinedEnt, status |-> 0, body |-> NoBody,
   layer |-> 0, dstatus |-> 0, dbody |-> NoBody, dresult |-> "none",
   probes |-> NoProbes, meter |-> "none", meterBody |-> NoBody,
   entUrl |-> <<>>, entCalls |-> 0, entResult |-> "none", downCalls |-> 0, meterCalls |-> 0,
   admitted |-> FALSE, responses |-> 0]

\* res.status(s).json(b); responses counts the calls made for the request.
Respond(q, s, b) ==
  [q EXCEPT !.pc = "done", !.status = s, !.body = b, !.responses = @ + 1]

\* req.user || null, req.entitlements || null
OrNull(ent) == IF ent.tag = "undefined" THEN NullEnt ELSE ent

\* Variant: the principal is kept in one module-level variable, written by
\* the first request in flight, instead of on the request object.
MeBody_shared(q, id) ==
  LET holders == {r \in AllReqs : reqs[r].user.defined}
      first == CHOOSE r \in holders : \A x \in holders : r <= x
  IN [user |-> reqs[first].user, entitlements |-> OrNull(q.entitlements), requestId |-> id]

MeBody(q, id) == [user |-> q.user, entitlements |-> OrNull(q.entitlements), requestId |-> id]

\* The handler of route layer i, up to its first await or its response.
RunHandler(q, id, i) ==
  CASE Stack[i].handler = "healthz" -> Respond(q, 200, [status |-> "ok", requestId |-> id])
    [] Stack[i].handler = "readyz" -> Respond(q, 200, [status |-> "ready"])
    [] Stack[i].handler = "me" -> Respond(q, 200, MeBody(q, id))
    [] Stack[i].handler = "readyzFull" ->
         [q EXCEPT !.pc = "probing", !.layer = i,
                   !.probes = [s \in Services |-> "pending"],
                   !.downCalls = @ + Cardinality(Services)]
    [] OTHER -> [q EXCEPT !.pc = "downFetch", !.layer = i, !.downCalls = @ + 1]

\* The stack after the rate limiter: guards and route handlers in order.
Dispatch(q, id) ==
  LET t == RouteFrom(1, q.method, q.path, q.entitlements) IN
  IF t.layer = 0 THEN Respond(q, 404, NotFoundBody)
  ELSE IF t.denied THEN Respond(q, 403, GuardBody(Stack[t.layer]))
  ELSE RunHandler(q, id, t.layer)

\* Variant: the 429 is sent without `return`, so next() runs all the same.
Admission_noReturn(q, id, tokens) ==
  IF RateLimit(tokens).admit THEN Dispatch([q EXCEPT !.admitted = TRUE], id)
  ELSE [Dispatch(q, id) EXCEPT !.pc = "done", !.status = 429,
                               !.body = ErrBody("Too many requests", id)]

\* The rate-limit middleware and, when it admits, all that next() runs.
Admission(q, id, tokens) ==
  IF RateLimit(tokens).admit THEN Dispatch([q EXCEPT !.admitted = TRUE], id)
  ELSE Respond(q, 429, ErrBody("Too many requests", id))

\* The auth middleware calls next(): the request goes through the rate
\* limiter and the stack within the same turn of the event loop.
CallNext(r, q) ==
  /\ reqs' = [reqs EXCEPT ![r] = Admission(q, r, TOKENS)]
  /\ TOKENS' = RateLimit(TOKENS).tokens
  /\ sinceRefill' = sinceRefill + (IF RateLimit(TOKENS).admit THEN 1 ELSE 0)
  /\ UNCHANGED <<env, wrapped>>

\* The source defines wrapWrite and passes no handler through it.
NoneWrapped == [i \in {} |-> ""]

Init ==
  /\ env \in [RATE_TOKENS : {<<n>> : n \in 0..MaxCeiling}, ENTITLEMENTS_URL : {<<>>}]
  /\ wrapped = NoneWrapped
  /\ TOKENS = RateCeiling(env)
  /\ reqs = [r \in AllReqs |-> Idle]
  /\ sinceRefill = 0

\* ---------------------------------------------------------------- actions
\* A request arrives: the auth middleware runs to its first await.
Receive(r, method, path, auth) ==
  /\ reqs[r].pc = "idle"
  /\ LET q == [Idle EXCEPT !.method = method, !.path = path, !.auth = auth]
         a == AuthOutcome(path, auth)
     IN CASE a = "open" -> CallNext(r, q)
          [] a = "missing" ->
               /\ reqs' = [reqs EXCEPT ![r] = Respond(q, 401, ErrBody("Missing token", r))]
               /\ UNCHANGED <<env, wrapped, TOKENS, sinceRefill>>
          [] a = "invalid" ->
               /\ reqs' = [reqs EXCEPT ![r] = Respond(q, 401, ErrBody("Invalid token", r))]
               /\ UNCHANGED <<env, wrapped, TOKENS, sinceRefill>>
          [] OTHER ->
               /\ reqs' = [reqs EXCEPT ![r] =
                    [q EXCEPT !.pc = "entFetch",
                              !.user = JwtVerify(ExtractToken(auth)[1]),
                              !.entUrl = EntitlementsUrl(env,
                                 TenantId(JwtVerify(ExtractToken(auth)[1]))),
                              !.entCalls = 1]]
               /\ UNCHANGED <<env, wrapped, TOKENS, sinceRefill>>

\* Variant: no inner try/catch, a throw of fetch lands in the outer catch.
EntFetchReturn_noInnerCatch(r, o) ==
  /\ reqs[r].pc = "entFetch"
  /\ IF o = "ok"
       THEN /\ reqs' = [reqs EXCEPT ![r].pc = "entJson"]
            /\ UNCHANGED <<env, wrapped, TOKENS, sinceRefill>>
       ELSE IF o = "throw"
       THEN /\ reqs' = [reqs EXCEPT ![r] =
                 Respond([reqs[r] EXCEPT !.entResult = o], 401, ErrBody("Invalid token", r))]
            /\ UNCHANGED <<env, wrapped, TOKENS, sinceRefill>>
       ELSE CallNext(r, [reqs[r] EXCEPT !.entitlements = EmptyEnt, !.entResult = o])

\* Variant: a failed lookup resolves to a set that disables everything.
AllOffEnt ==
  [tag |-> "object", has |-> {"modules", "features"},
   modules |-> [k \in ModuleKeys |-> "F"], features |-> [k \in FeatureKeys |-> "F"]]
EntFetchReturn_failClosed(r, o) ==
  /\ reqs[r].pc = "entFetch"
  /\ IF o = "ok"
       THEN /\ reqs' = [reqs EXCEPT ![r].pc = "entJson"]
            /\ UNCHANGED <<env, wrapped, TOKENS, sinceRefill>>
       ELSE CallNext(r, [reqs[r] EXCEPT !.entitlements = AllOffEnt, !.entResult = o])

\* await fetch(url) of the entitlement call settles: it throws, or answers
\* with resp.ok false, or with resp.ok true (resp.json() is then awaited).
EntFetchReturn(r, o) ==
  /\ reqs[r].pc = "entFetch"
  /\ IF o = "ok"
       THEN /\ reqs' = [reqs EXCEPT ![r].pc = "entJson"]
            /\ UNCHANGED <<env, wrapped, TOKENS, sinceRefill>>
       ELSE CallNext(r, [reqs[r] EXCEPT !.entitlements = EmptyEnt, !.entResult = o])

\* await resp.json() of the entitlement call settles: it throws (the inner
\* catch) or yields the decoded body.
ThrowEnt == [tag |-> "throw", has |-> {}, modules |-> NoModules, features |-> NoFeatures]
EntJsonReturn(r, b) ==
  /\ reqs[r].pc = "entJson"
  /\ CallNext(r, [reqs[r] EXCEPT
       !.entitlements = IF b = ThrowEnt THEN EmptyEnt ELSE b,
       !.entResult = IF b = ThrowEnt THEN "badJson" ELSE "ok"])

\* wrapWrite, after `await handler(req, res)`: a wrapped handler that has
\* sent a status below 500 calls meterWrite, which posts
\* { tenantId, metric, value: 1 } to the metering service and is not awaited.
AfterHandler(q) ==
  IF q.layer \in DOMAIN wrapped /\ q.status < 500
  THEN [q EXCEPT !.meter = "pending", !.meterCalls = @ + 1,
                 !.meterBody = [tenantId |-> TenantId(q.user),
                                metric |-> wrapped[q.layer], value |-> 1]]
  ELSE q

\* Variant: every catch block carries the message of the first one.
Unavailable_firstLabel(q, id) ==
  Respond(q, 502, ErrBody(<<"org", "-service unavailable">>, id))

\* The 502 of a proxy handler's catch.
Unavailable(q, id) ==
  Respond(q, 502, ErrBody(<<Stack[q.layer].label, "-service unavailable">>, id))

\* await fetch(...) of a proxy handler settles: status 0 stands for a throw.
\* dresult keeps how the downstream call ended.
DownFetchReturn(r, s) ==
  /\ reqs[r].pc = "downFetch"
  /\ reqs' = [reqs EXCEPT ![r] =
       IF s = 0 THEN AfterHandler(Unavailable([reqs[r] EXCEPT !.dresult = "threw"], r))
       ELSE [reqs[r] EXCEPT !.pc = "downJson", !.dstatus = s]]
  /\ UNCHANGED <<env, wrapped, TOKENS, sinceRefill>>

ThrowJson == [throw |-> TRUE]

\* Variant: a downstream 5xx is reported as the gateway's own 502.
DownJsonReturn_masks5xx(r, j) ==
  /\ reqs[r].pc = "downJson"
  /\ reqs' = [reqs EXCEPT ![r] =
       AfterHandler(
         IF j = ThrowJson THEN Unavailable([reqs[r] EXCEPT !.dresult = "badJson"], r)
         ELSE IF reqs[r].dstatus >= 500
           THEN Unavailable([reqs[r] EXCEPT !.dbody = j, !.dresult = "ok"], r)
         ELSE Respond([reqs[r] EXCEPT !.dbody = j, !.dresult = "ok"], reqs[r].dstatus, j))]
  /\ UNCHANGED <<env, wrapped, TOKENS, sinceRefill>>

\* Variant: a statement after the relay throws inside the try block, so the
\* catch answers 502 for a request that was answered already.
DownJsonReturn_answersTwice(r, j) ==
  /\ reqs[r].pc = "downJson"
  /\ reqs' = [reqs EXCEPT ![r] =
       AfterHandler(
         IF j = ThrowJson THEN Unavailable([reqs[r] EXCEPT !.dresult = "badJson"], r)
         ELSE Unavailable(
                Respond([reqs[r] EXCEPT !.dbody = j, !.dresult = "ok"], reqs[r].dstatus, j), r))]
  /\ UNCHANGED <<env, wrapped, TOKENS, sinceRefill>>

\* await r.json() of a proxy handler settles: it throws or yields j, which
\* is relayed with the downstream status. dbody keeps what was decoded.
DownJsonReturn(r, j) ==
  /\ reqs[r].pc = "downJson"
  /\ reqs' = [reqs EXCEPT ![r] =
       AfterHandler(
         IF j = ThrowJson THEN Unavailable([reqs[r] EXCEPT !.dresult = "badJson"], r)
         ELSE Respond([reqs[r] EXCEPT !.dbody = j, !.dresult = "ok"], reqs[r].dstatus, j))]
  /\ UNCHANGED <<env, wrapped, TOKENS, sinceRefill>>

\* Variant: the probes have no try/catch of their own, so the first throw
\* rejects Promise.all and the handler's catch answers at once.
ProbeReturn_rejects(r, s, o) ==
  /\ reqs[r].pc = "probing"
  /\ reqs[r].probes[s] = "pending"
  /\ LET seen == [reqs[r].probes EXCEPT ![s] = o]
         status == [x \in Services |-> seen[x] = "ok"]
         allOk == \A x \in Services : status[x]
         q == [reqs[r] EXCEPT !.probes = seen]
     IN reqs' = [reqs EXCEPT ![r] =
          IF o = "throw" THEN Respond(q, 503, [ready |-> FALSE])
          ELSE IF \E x \in Services : seen[x] = "pending" THEN q
          ELSE Respond(q, IF allOk THEN 200 ELSE 503, [ready |-> allOk, status |-> status])]
  /\ UNCHANGED <<env, wrapped, TOKENS, sinceRefill>>

\* One probe of GET /readyz/full settles: fetch answers with r.ok true
\* ("ok") or false ("notOk"), or throws ("throw", caught: [k, false]). When
\* it was the last one, Promise.all resolves and the response is sent.
\* probes keeps how each probe ended; the body holds the booleans.
ProbeReturn(r, s, o) ==
  /\ reqs[r].pc = "probing"
  /\ reqs[r].probes[s] = "pending"
  /\ LET seen == [reqs[r].probes EXCEPT ![s] = o]
         status == [x \in Services |-> seen[x] = "ok"]
         allOk == \A x \in Services : status[x]
         q == [reqs[r] EXCEPT !.probes = seen]
     IN reqs' = [reqs EXCEPT ![r] =
          IF \E x \in Services : seen[x] = "pending" THEN q
          ELSE Respond(q, IF allOk THEN 200 ELSE 503, [ready |-> allOk, status |-> status])]
  /\ UNCHANGED <<env, wrapped, TOKENS, sinceRefill>>

\* Variant: meterWrite is awaited and has no try/catch, so a metering
\* failure reaches the client as an error.
MeterReturn_surfaces(r, o) ==
  /\ reqs[r].meter = "pending"
  /\ reqs' = [reqs EXCEPT ![r] =
       IF o = "throw"
       THEN [reqs[r] EXCEPT !.meter = "failed", !.status = 500,
                            !.body = ErrBody("Internal Server Error", r)]
       ELSE [reqs[r] EXCEPT !.meter = "ok"]]
  /\ UNCHANGED <<env, wrapped, TOKENS, sinceRefill>>

\* await fetch(...) of meterWrite settles: the answer is dropped, a throw is
\* caught and dropped.
MeterReturn(r, o) ==
  /\ reqs[r].meter = "pending"
  /\ reqs' = [reqs EXCEPT ![r].meter = IF o = "throw" THEN "failed" ELSE "ok"]
  /\ UNCHANGED <<env, wrapped, TOKENS, sinceRefill>>

\* The response has gone out and the request object is dropped.
Complete(r) ==
  /\ reqs[r].pc = "done"
  /\ reqs' = [reqs EXCEPT ![r] = Idle]
  /\ UNCHANGED <<env, wrapped, TOKENS, sinceRefill>>

\* Variant: the timer adds the ceiling to what is left (TOKENS += ...).
Refill_accumulates ==
  /\ TOKENS' = TOKENS + RateCeiling(env)
  /\ sinceRefill' = 0
  /\ UNCHANGED <<env, wrapped, reqs>>

\* Variant: the refill waits until no request is suspended on a call.
Refill_whenQuiet ==
  /\ \A r \in AllReqs : reqs[r].pc \in {"idle", "done"}
  /\ TOKENS' = RateCeiling(env)
  /\ sinceRefill' = 0
  /\ UNCHANGED <<env, wrapped, reqs>>

\* setInterval(() => (TOKENS = Number(process.env.RATE_TOKENS || 200)), INTERVAL)
Refill ==
  /\ TOKENS' = RateCeiling(env)
  /\ sinceRefill' = 0
  /\ UNCHANGED <<env, wrapped, reqs>>

\* process.env.RATE_TOKENS is given another value while the gateway runs.
\* No line of the gateway writes it; the write comes from the embedding
\* process. TOKENS is not touched.
Reconfigure(n) ==
  /\ env.RATE_TOKENS # <<n>>
  /\ env' = [env EXCEPT !.RATE_TOKENS = <<n>>]
  /\ UNCHANGED <<wrapped, TOKENS, reqs, sinceRefill>>

\* --------------------------------------------------------- specifications
Req(m, p) == [method |-> m, path |-> p]

\* What the collaborators answer.
EntFetchOutcomes == {"throw", "notOk", "ok"}
EntBodies == {EmptyEnt, FormsOffEnt, FeaturesOffEnt}
DownStatuses == {201, 500}
DownBodies == {[id |-> "abc"]}

\* Spec: the pipeline, one client at a time. Every kind of Authorization
\* header on the open paths, on paths that extend an open path, and on a
\* local, a proxied and two guarded routes. The readiness probes stay
\* unanswered here.
PipelineRequests ==
  { Req("GET", <<"healthz">>), Req("GET", <<"readyz">>), Req("POST", <<"auth", "login">>),
    Req("GET", <<"readyz", "full">>), Req("GET", <<"healthz", "live">>),
    Req("GET", <<"api", "v1", "me">>), Req("GET", <<"api", "org", "o1">>),
    Req("POST", <<"api", "forms">>), Req("GET", <<"api", "i18n", "ns1">>) }
PipelineHeaders == {AbsentAuth, BasicAuth, EmptyBearer, ForgedBearer, BearerA}

Next ==
  \/ \E r \in SeqReqs :
       \/ \E k \in PipelineRequests, h \in PipelineHeaders : Receive(r, k.method, k.path, h)
       \/ \E o \in EntFetchOutcomes : EntFetchReturn(r, o)
       \/ \E b \in EntBodies \cup {ThrowEnt} : EntJsonReturn(r, b)
       \/ \E s \in DownStatuses \cup {0} : DownFetchReturn(r, s)
       \/ \E j \in DownBodies \cup {ThrowJson} : DownJsonReturn(r, j)
       \/ Complete(r)
  \/ Refill

Spec == Init /\ [][Next]_vars

\* SpecGates: authenticated clients on the guarded route groups, with every
\* shape of entitlement set the guards tell apart.
GateRequests ==
  { Req("POST", <<"api", "forms">>), Req("GET", <<"api", "forms", "f1">>),
    Req("PATCH", <<"api", "forms", "f1">>), Req("DELETE", <<"api", "forms", "f1">>),
    Req("GET", <<"api", "forms", "by-code", "c1">>),
    Req("GET", <<"api", "forms", "f1", "preview">>),
    Req("GET", <<"api", "reports", "live", "b1">>),
    Req("GET", <<"api", "i18n", "ns1">>), Req("GET", <<"api", "webhooks">>),
    Req("GET", <<"api", "schedules">>) }
GateEntBodies == {EmptyEnt, FormsOffEnt, FormsOnEnt, FeaturesOffEnt, FeaturesOnEnt, NullEnt}

NextGates ==
  \/ \E r \in SeqReqs :
       \/ \E k \in GateRequests : Receive(r, k.method, k.path, BearerA)
       \/ \E o \in {"notOk", "ok"} : EntFetchReturn(r, o)
       \/ \E b \in GateEntBodies : EntJsonReturn(r, b)
       \/ \E s \in {201, 0} : DownFetchReturn(r, s)
       \/ \E j \in DownBodies : DownJsonReturn(r, j)
       \/ Complete(r)
  \/ Refill

SpecGates == Init /\ [][NextGates]_vars

\* SpecConc: concurrent clients racing on the admission counter.
ConcRequests == {Req("GET", <<"healthz">>), Req("GET", <<"api", "org", "o1">>)}

NextConc ==
  \/ \E r \in ConcReqs :
       \/ \E k \in ConcRequests, h \in {AbsentAuth, BearerA} : Receive(r, k.method, k.path, h)
       \/ \E o \in {"throw", "ok"} : EntFetchReturn(r, o)
       \/ EntJsonReturn(r, EmptyEnt)
       \/ \E s \in {201, 0} : DownFetchReturn(r, s)
       \/ \E j \in DownBodies : DownJsonReturn(r, j)
       \/ Complete(r)
  \/ Refill

SpecConc == Init /\ [][NextConc]_vars

\* SpecReconf: the concurrent clients of SpecConc, with a ceiling that is
\* changed while requests are in flight.
NextReconf ==
  \/ \E r \in ConcReqs :
       \/ \E k \in ConcRequests, h \in {AbsentAuth, BearerA} : Receive(r, k.method, k.path, h)
       \/ \E o \in {"throw", "ok"} : EntFetchReturn(r, o)
       \/ EntJsonReturn(r, EmptyEnt)
       \/ \E s \in {201, 0} : DownFetchReturn(r, s)
       \/ \E j \in DownBodies : DownJsonReturn(r, j)
       \/ Complete(r)
  \/ Refill
  \/ \E n \in 0..MaxCeiling : Reconfigure(n)

SpecReconf == Init /\ [][NextReconf]_vars

\* SpecLive: one client at a time on a route of each kind (open, proxied,
\* guarded, aggregated readiness, unregistered) under a ceiling of one,
\* where every outbound call that was issued settles in the end: the
\* entitlement call, the downstream call and each readiness probe return
\* or throw.
LiveRequests ==
  { Req("GET", <<"healthz">>), Req("GET", <<"readyz", "full">>),
    Req("GET", <<"api", "org", "o1">>), Req("GET", <<"api", "i18n", "ns1">>),
    Req("GET", <<"api", "nowhere">>) }
LiveProbeAnswers == (Services \X {"ok"}) \cup {<<"org", "throw">>}

InitLive ==
  /\ env = [RATE_TOKENS |-> <<1>>, ENTITLEMENTS_URL |-> <<>>]
  /\ wrapped = NoneWrapped
  /\ TOKENS = RateCeiling(env)
  /\ reqs = [r \in AllReqs |-> Idle]
  /\ sinceRefill = 0

NextLive ==
  \/ \E r \in SeqReqs :
       \/ \E k \in LiveRequests, h \in {AbsentAuth, BearerA} : Receive(r, k.method, k.path, h)
       \/ \E o \in {"throw", "ok"} : EntFetchReturn(r, o)
       \/ EntJsonReturn(r, FeaturesOffEnt)
       \/ \E s \in {201, 0} : DownFetchReturn(r, s)
       \/ \E j \in DownBodies \cup {ThrowJson} : DownJsonReturn(r, j)
       \/ \E a \in LiveProbeAnswers : ProbeReturn(r, a[1], a[2])
       \/ Complete(r)
  \/ Refill

\* fetch and json() promises settle: the await a request is suspended on
\* is resumed.
CallsSettle ==
  \A r \in SeqReqs :
    WF_vars(\/ \E o \in {"throw", "ok"} : EntFetchReturn(r, o)
            \/ EntJsonReturn(r, FeaturesOffEnt)
            \/ \E s \in {201, 0} : DownFetchReturn(r, s)
            \/ \E j \in DownBodies \cup {ThrowJson} : DownJsonReturn(r, j)
            \/ \E a \in LiveProbeAnswers : ProbeReturn(r, a[1], a[2]))

SpecLive == InitLive /\ [][NextLive]_vars /\ CallsSettle

\* SpecReady: clients of the aggregated readiness route, whose five probes
\* settle one by one in any order. Every service may be ready; org and
\* forms may be unreachable, the other three may answer a failure status.
ProbeAnswers ==
  (Services \X {"ok"}) \cup ({"org", "forms"} \X {"throw"})
    \cup ({"submissions", "discounts", "staff"} \X {"notOk"})

NextReady ==
  \/ \E r \in SeqReqs :
       \/ \E h \in {AbsentAuth, BearerA} : Receive(r, "GET", <<"readyz", "full">>, h)
       \/ EntFetchReturn(r, "throw")
       \/ \E a \in ProbeAnswers : ProbeReturn(r, a[1], a[2])
       \/ Complete(r)
  \/ Refill

SpecReady == Init /\ [][NextReady]_vars

\* SpecProxy: an authenticated client on each of the proxy routes in turn,
\* with a downstream that answers 2xx, 4xx or 5xx, answers something that
\* is not JSON, or cannot be reached. The ceiling is the largest one.
ProxyLayers == {i \in 1..Len(Stack) : Stack[i].handler = "proxy"}
Instantiate(pattern) ==
  [i \in 1..Len(pattern) |-> IF pattern[i] \in Params THEN "x1" ELSE pattern[i]]
ProxyRequests == {Req(Stack[i].method, Instantiate(Stack[i].pattern)) : i \in ProxyLayers}
ProxyStatuses == {200, 404, 500}

InitProxy ==
  /\ env = [RATE_TOKENS |-> <<MaxCeiling>>, ENTITLEMENTS_URL |-> <<>>]
  /\ wrapped = NoneWrapped
  /\ TOKENS = RateCeiling(env)
  /\ reqs = [r \in AllReqs |-> Idle]
  /\ sinceRefill = 0

NextProxy ==
  \/ \E r \in SeqReqs :
       \/ \E k \in ProxyRequests : Receive(r, k.method, k.path, BearerA)
       \/ EntFetchReturn(r, "throw")
       \/ \E s \in ProxyStatuses \cup {0} : DownFetchReturn(r, s)
       \/ \E j \in DownBodies \cup {ThrowJson} : DownJsonReturn(r, j)
       \/ Complete(r)
  \/ Refill

SpecProxy == InitProxy /\ [][NextProxy]_vars

\* SpecMeter: the gateway as it would run with POST /api/forms registered
\* through wrapWrite(handler, 'forms.create'). The source registers the bare
\* handler; this specification exercises wrapWrite and meterWrite as they
\* are defined. GET /api/forms/:id stays unwrapped.
FormsCreate == CHOOSE i \in ProxyLayers :
  Stack[i].method = "POST" /\ Stack[i].pattern = <<"api", "forms">>
MeterRequests == {Req("POST", <<"api", "forms">>), Req("GET", <<"api", "forms", "f1">>)}

InitMeter ==
  /\ env \in [RATE_TOKENS : {<<n>> : n \in 0..MaxCeiling}, ENTITLEMENTS_URL : {<<>>}]
  /\ wrapped = [i \in {FormsCreate} |-> "forms.create"]
  /\ TOKENS = RateCeiling(env)
  /\ reqs = [r \in AllReqs |-> Idle]
  /\ sinceRefill = 0

NextMeter ==
  \/ \E r \in SeqReqs :
       \/ \E k \in MeterRequests, h \in {BearerA, BearerB} : Receive(r, k.method, k.path, h)
       \/ EntFetchReturn(r, "throw")
       \/ \E s \in {201, 500, 0} : DownFetchReturn(r, s)
       \/ \E j \in DownBodies \cup {ThrowJson} : DownJsonReturn(r, j)
       \/ \E o \in {"ok", "throw"} : MeterReturn(r, o)
       \/ Complete(r)
  \/ Refill

SpecMeter == InitMeter /\ [][NextMeter]_vars

\* SpecTenants: concurrent clients of GET /api/v1/me holding the tokens of
\* principals of three tenants, with ENTITLEMENTS_URL unset or set, and an
\* entitlement service that answers differently from call to call.
InitTenants ==
  /\ env \in [RATE_TOKENS : {<<n>> : n \in 0..MaxCeiling},
               ENTITLEMENTS_URL : {<<>>, <<"http://entitlements.internal/v1/">>}]
  /\ wrapped = NoneWrapped
  /\ TOKENS = RateCeiling(env)
  /\ reqs = [r \in AllReqs |-> Idle]
  /\ sinceRefill = 0

NextTenants ==
  \/ \E r \in ConcReqs :
       \/ \E h \in {BearerA, BearerB, BearerC} : Receive(r, "GET", <<"api", "v1", "me">>, h)
       \/ \E o \in {"throw", "ok"} : EntFetchReturn(r, o)
       \/ \E b \in {FormsOffEnt, FeaturesOffEnt} : EntJsonReturn(r, b)
       \/ Complete(r)
  \/ Refill

SpecTenants == InitTenants /\ [][NextTenants]_vars

\* ------------------------------------------------------------ properties
\* The bypass list and the tokens that verify, as the contract names them.
ExactOpenPaths == {<<"healthz">>, <<"readyz">>, <<"auth", "login">>}
Protected(q) == q.pc # "idle" /\ q.path \notin ExactOpenPaths
CarriesToken(q) == q.auth.prefix = "Bearer " /\ q.auth.rest # ""
Verifies(q) == CarriesToken(q) /\ JwtVerify(q.auth.rest).defined
BeforeAdmission == {"idle", "entFetch", "entJson"}

\* The request is on one of the routes registered under /api/forms.
IsFormsRoute(q) ==
  \E i \in 1..Len(Stack) :
    /\ Stack[i].type = "route"
    /\ Len(Stack[i].pattern) >= 2
    /\ Stack[i].pattern[1] = "api" /\ Stack[i].pattern[2] = "forms"
    /\ RouteMatches(Stack[i], q.method, q.path)

\* C1: an authenticated, admitted request on a route under /api/forms is
\* answered 403 "Module disabled: forms" when its entitlement set has
\* modules.forms false, and otherwise goes on to the downstream call.
C1_FormsModuleGate ==
  \A r \in AllReqs :
    LET q == reqs[r] IN
    (q.user.defined /\ q.admitted /\ IsFormsRoute(q)) =>
      IF q.entitlements.tag = "object" /\ "modules" \in q.entitlements.has
         /\ q.entitlements.modules["forms"] = "F"
      THEN /\ q.pc = "done" /\ q.status = 403
           /\ q.body = [message |-> <<"Module disabled: ", "forms">>]
           /\ q.downCalls = 0
      ELSE q.downCalls = 1

\* C2: every answer to GET /healthz is 200 {status: "ok", requestId},
\* whatever the Authorization header and the capacity left.
C2_HealthzAlways200 ==
  \A r \in AllReqs :
    LET q == reqs[r] IN
    (q.pc = "done" /\ q.method = "GET" /\ q.path = <<"healthz">>) =>
      /\ q.status = 200
      /\ q.body = [status |-> "ok", requestId |-> r]

\* Request r comes to the rate limiter in this step, and is turned away.
ReachesAdmission(r) ==
  /\ reqs[r].pc \in BeforeAdmission
  /\ reqs'[r].pc \notin BeforeAdmission
  /\ reqs'[r].status # 401
TurnedAway(r) ==
  reqs'[r].pc = "done" /\ reqs'[r].status = 429 /\ ~reqs'[r].admitted

\* C3: between two refills at most `ceiling` requests are admitted, however
\* the requests interleave; once that many were admitted every request that
\* comes to the rate limiter gets 429; a refill restores the full capacity.
C3_AtMostCeilingPerInterval ==
  /\ [](sinceRefill <= RateCeiling(env))
  /\ [][\A r \in AllReqs :
          (sinceRefill >= RateCeiling(env) /\ ReachesAdmission(r)) => TurnedAway(r)]_vars
  /\ [][reqs' = reqs => (TOKENS' = RateCeiling(env) /\ sinceRefill' = 0)]_vars

C3_Witness ==
  /\ RateCeiling(env) >= 2
  /\ sinceRefill = RateCeiling(env)
  /\ \E r1, r2 \in AllReqs :
       /\ reqs[r1].admitted /\ reqs[r1].pc = "downJson"
       /\ reqs[r2].pc = "done" /\ reqs[r2].status = 429

\* C4: the counter stays between 0 and the configured ceiling.
C4_CounterInRange == 0 <= TOKENS /\ TOKENS <= RateCeiling(env)

C4_Witness ==
  /\ TOKENS = 0 /\ RateCeiling(env) = MaxCeiling
  /\ \E r \in AllReqs : reqs[r].pc = "done" /\ reqs[r].status = 429

\* C5: a step in which the rate limiter admits a request takes exactly one
\* token; a step in which it answers 429 finds the counter <= 0 and leaves
\* it alone; no other step of a request changes the counter (only the
\* timer's refill, which touches no request, does).
C5_AdmissionDelta ==
  [][ \/ reqs' = reqs
      \/ LET newly == {r \in AllReqs : ~reqs[r].admitted /\ reqs'[r].admitted}
             turned == {r \in AllReqs : reqs[r].status # 429 /\ reqs'[r].status = 429}
         IN /\ Cardinality(newly) <= 1
            /\ TOKENS' = TOKENS - Cardinality(newly)
            /\ newly # {} => TOKENS > 0
            /\ turned # {} => (TOKENS <= 0 /\ TOKENS' = TOKENS) ]_vars

C5_Witness ==
  /\ TOKENS = 0
  /\ \E r1, r2 \in AllReqs :
       /\ reqs[r1].admitted /\ reqs[r1].pc = "downFetch" /\ reqs[r1].entCalls = 1
       /\ reqs[r2].pc = "done" /\ reqs[r2].status = 429 /\ ~reqs[r2].admitted

\* C6: a request on a protected path without a non-empty Bearer token is
\* answered 401 "Missing token".
C6_MissingToken ==
  \A r \in AllReqs :
    LET q == reqs[r] IN
    (Protected(q) /\ ~CarriesToken(q)) =>
      /\ q.pc = "done" /\ q.status = 401
      /\ q.body = [message |-> "Missing token", requestId |-> r]

C6_Witness ==
  \E r \in AllReqs :
    /\ reqs[r].auth = EmptyBearer /\ reqs[r].path = <<"api", "org", "o1">>
    /\ reqs[r].status = 401 /\ reqs[r].body.message = "Missing token"

\* C7: a request on a protected path whose token does not verify is
\* answered 401 "Invalid token" and gets no principal; and 401 "Invalid
\* token" is the answer to nothing else: never to a request whose token
\* verified, whatever became of its entitlement call.
C7_InvalidToken ==
  \A r \in AllReqs :
    LET q == reqs[r] IN
    /\ (Protected(q) /\ CarriesToken(q) /\ ~Verifies(q)) =>
         /\ q.pc = "done" /\ q.status = 401
         /\ q.body = [message |-> "Invalid token", requestId |-> r]
         /\ q.user = NoUser /\ q.entCalls = 0
    /\ (q.pc = "done" /\ q.status = 401 /\ q.body.message = "Invalid token") =>
         (Protected(q) /\ CarriesToken(q) /\ ~Verifies(q))
    /\ q.entResult \in {"throw", "notOk", "badJson"} => q.status # 401

C7_Witness ==
  \E r \in AllReqs :
    /\ reqs[r].auth = ForgedBearer /\ reqs[r].path = <<"api", "v1", "me">>
    /\ reqs[r].status = 401 /\ reqs[r].body.message = "Invalid token"

\* C8: a request passes without identity verification (no principal, no
\* 401) exactly when its path is one of the three open paths, whatever its
\* header; a path that only starts like an open path is verified, and is
\* answered 401 unless its token verifies.
C8_ExactBypass ==
  \A r \in AllReqs :
    LET q == reqs[r] IN
    q.pc # "idle" =>
      /\ (~q.user.defined /\ q.status # 401) <=> (q.path \in ExactOpenPaths)
      /\ (q.path \notin ExactOpenPaths /\ ~Verifies(q)) => (q.pc = "done" /\ q.status = 401)
      /\ q.path \in ExactOpenPaths => q.entCalls = 0

C8_Witness ==
  /\ \E r \in AllReqs :
       /\ reqs[r].path = <<"readyz", "full">> /\ reqs[r].auth = ForgedBearer
       /\ reqs[r].status = 401

\* C9: a request answered 401 issued no entitlement lookup, took no token
\* and made no downstream call; a request answered 429 made no downstream
\* call and no metering notification; a downstream call is made only for a request that the rate limiter
\* admitted and that is on an open path or has a verified principal.
C9_ShortCircuit ==
  /\ [](\A r \in AllReqs :
          LET q == reqs[r] IN
          /\ q.status = 401 => (q.entCalls = 0 /\ ~q.admitted /\ q.downCalls = 0)
          /\ q.status = 429 =>
               (q.downCalls = 0 /\ q.meterCalls = 0 /\ ~q.admitted /\ q.layer = 0)
          /\ q.downCalls > 0 => (q.admitted /\ (q.path \in ExactOpenPaths \/ Verifies(q))))
  /\ [][\A r \in AllReqs :
          (reqs[r].status # 401 /\ reqs'[r].status = 401) =>
             (TOKENS' = TOKENS /\ sinceRefill' = sinceRefill)]_vars

C9_Witness ==
  \E r \in AllReqs :
    /\ reqs[r].path = <<"api", "org", "o1">> /\ reqs[r].entCalls = 1
    /\ reqs[r].pc = "done" /\ reqs[r].status = 429 /\ reqs[r].downCalls = 0

\* C10: once the entitlement call of a request with a verified token has
\* settled, in whichever way, the request has gone on to the rate limiter
\* (admitted or 429, never 401); after a throw, a non-success status or an
\* undecodable body its entitlement set is { modules: {}, features: {} },
\* which no module guard and no feature guard denies.
C10_EntitlementFailOpen ==
  \A r \in AllReqs :
    LET q == reqs[r] IN
    (q.pc # "idle" /\ Verifies(q) /\ q.entResult # "none") =>
      /\ q.admitted \/ (q.pc = "done" /\ q.status = 429)
      /\ q.status # 401
      /\ q.entResult \in {"throw", "notOk", "badJson"} =>
           /\ q.entitlements = EmptyEnt
           /\ \A k \in ModuleKeys : moduleEnabled(k, q.entitlements)
           /\ \A k \in FeatureKeys : featureEnabled(k, q.entitlements)
           /\ q.status # 403

C10_Witness ==
  \E r \in AllReqs :
    /\ reqs[r].entResult = "badJson" /\ reqs[r].path = <<"api", "i18n", "ns1">>
    /\ reqs[r].admitted /\ reqs[r].pc = "downFetch"

\* The request was handed to a proxy handler, which made its downstream call.
Dispatched(q) == q.layer \in ProxyLayers

\* C11: when the downstream answers a dispatched request with status s and
\* a JSON body b, the client gets exactly status s and body b, for every
\* proxy route and for 2xx, 4xx and 5xx alike.
C11_DispatchPassthrough ==
  \A r \in AllReqs :
    LET q == reqs[r] IN
    (Dispatched(q) /\ q.dresult = "ok") =>
      /\ q.pc = "done"
      /\ q.status = q.dstatus /\ q.dstatus \in ProxyStatuses
      /\ q.body = q.dbody /\ q.dbody \in DownBodies

C11_Witness ==
  /\ \E r \in AllReqs :
       /\ reqs[r].path = <<"api", "tenant-isolation", "validate-access">>
       /\ reqs[r].dresult = "ok" /\ reqs[r].status = 500
  /\ \A i \in ProxyLayers :
       RouteFrom(1, Stack[i].method, Instantiate(Stack[i].pattern), EmptyEnt).layer = i

\* The service each downstream base address belongs to (the name of the
\* environment variable the address is read from).
ServiceOfBase ==
  [ORG_BASE |-> "org", FORMS_BASE |-> "forms", SUBMISSIONS_BASE |-> "submissions",
   DISCOUNTS_BASE |-> "discounts", STAFF_BASE |-> "staff",
   NOTIFY_BASE |-> "notifications", REPORT_BASE |-> "reporting",
   I18N_BASE |-> "translation", FLAGS_BASE |-> "feature-flags",
   API_PROG_BASE |-> "api-program", SEARCH_BASE |-> "search",
   METER_BASE |-> "metering", INTEG_BASE |-> "integration-hub",
   EXPORT_BASE |-> "export-scheduler", AI_ML_BASE |-> "ai-ml",
   AUDIT_BASE |-> "audit", TENANT_ISOLATION_BASE |-> "tenant-isolation"]

\* C12: when the downstream call of a dispatched request throws, or its
\* body does not decode as JSON, the client gets exactly 502
\* { message: "<label>-service unavailable", requestId } where <label> is
\* the service of the base address the route called; and a dispatched
\* request makes one downstream call, never a second one.
C12_FailureTranslation ==
  \A r \in AllReqs :
    LET q == reqs[r] IN
    Dispatched(q) =>
      /\ q.downCalls = 1
      /\ q.dresult \in {"threw", "badJson"} =>
           /\ q.pc = "done" /\ q.status = 502
           /\ q.body = [message |-> <<ServiceOfBase[Stack[q.layer].base],
                                     "-service unavailable">>,
                        requestId |-> r]

C12_Witness ==
  \E r \in AllReqs :
    /\ reqs[r].path = <<"api", "i18n", "x1">> /\ reqs[r].dresult = "badJson"
    /\ reqs[r].dstatus = 200 /\ reqs[r].status = 502
    /\ reqs[r].body.message[1] = "translation" /\ reqs[r].downCalls = 1

\* C13: a request that reached the handler of GET /readyz/full is answered
\* only once all five probes have settled; the status is 200 when every
\* probe answered ok and 503 otherwise (a probe that threw counts as not
\* ok); in both cases the body is { ready, status } with ready the
\* conjunction and status holding one boolean per service.
C13_ReadinessConjunction ==
  \A r \in AllReqs :
    LET q == reqs[r]
        okOf == [s \in Services |-> q.probes[s] = "ok"]
        all == \A s \in Services : okOf[s]
    IN (q.layer # 0 /\ Stack[q.layer].handler = "readyzFull") =>
         /\ q.downCalls = Cardinality(Services)
         /\ IF \E s \in Services : q.probes[s] = "pending"
              THEN q.pc = "probing" /\ q.status = 0
              ELSE /\ q.pc = "done"
                   /\ \A s \in Services : q.probes[s] \in {"ok", "notOk", "throw"}
                   /\ q.status = IF all THEN 200 ELSE 503
                   /\ q.body = [ready |-> all, status |-> okOf]

C13_Witness ==
  \E r \in AllReqs :
    /\ reqs[r].pc = "done" /\ reqs[r].status = 503
    /\ reqs[r].probes = [s \in Services |-> IF s = "forms" THEN "throw" ELSE "ok"]
    /\ reqs[r].body.ready = FALSE /\ reqs[r].body.status["forms"] = FALSE
    /\ reqs[r].body.status["org"] = TRUE

\* The request was handed to a handler registered through wrapWrite.
Wrapped(q) == q.layer \in DOMAIN wrapped

\* C14: the client of a wrapped write gets the status and body its dispatch
\* handler produced (the downstream's answer relayed, or the 502 of the
\* handler's catch), whether the metering notification is still pending,
\* succeeded or failed; a failed notification goes with a response below
\* 500; and once a response is sent no later step changes it.
C14_MeteringLeavesResponse ==
  /\ [](\A r \in AllReqs :
          LET q == reqs[r] IN
          (Wrapped(q) /\ q.pc = "done") =>
            /\ q.dresult = "ok" => (q.status = q.dstatus /\ q.body = q.dbody)
            /\ q.dresult \in {"threw", "badJson"} =>
                 (q.status = 502 /\ q.body = ErrBody(<<"forms", "-service unavailable">>, r))
            /\ q.meter \in {"pending", "ok", "failed"} => q.status = 201)
  /\ [][\A r \in AllReqs :
          (reqs[r].pc = "done" /\ reqs'[r].pc = "done") =>
             (reqs'[r].status = reqs[r].status /\ reqs'[r].body = reqs[r].body)]_vars

C14_Witness ==
  \E r \in AllReqs :
    /\ Wrapped(reqs[r]) /\ reqs[r].meter = "failed" /\ reqs[r].meterCalls = 1
    /\ reqs[r].status = 201 /\ reqs[r].body = [id |-> "abc"]

\* C15: a POST /api/forms that was dispatched and answered below 500 has
\* notified the metering service exactly once, with the requester's tenant
\* and value 1; one answered 500 or more, or not answered yet, has not.
C15_WritesAreMetered ==
  \A r \in AllReqs :
    LET q == reqs[r] IN
    (q.method = "POST" /\ q.path = <<"api", "forms">> /\ Dispatched(q)) =>
      IF q.pc = "done" /\ q.status < 500
      THEN /\ q.meterCalls = 1
           /\ q.meterBody.tenantId = TenantId(q.user) /\ q.meterBody.value = 1
      ELSE q.meterCalls = 0

\* The statuses with which the gateway itself reports a failure.
FailureStatuses == {401, 429, 403, 502, 503}

\* C16: every response with a failure status (401, 429, 403, 502, 503) has
\* a body that holds a message and the requestId of its request.
C16_FailureEnvelope ==
  \A r \in AllReqs :
    LET q == reqs[r] IN
    (q.pc = "done" /\ q.status \in FailureStatuses) =>
      /\ {"message", "requestId"} \subseteq DOMAIN q.body
      /\ q.body.requestId = r

\* The principal each token stands for, and the request is on /api/v1/me.
PrincipalOf(auth) ==
  CASE auth = BearerA -> UserA [] auth = BearerB -> UserB
    [] auth = BearerC -> UserC [] OTHER -> NoUser
OnMe(q) == q.pc # "idle" /\ q.method = "GET" /\ q.path = <<"api", "v1", "me">>

\* C17: a request on GET /api/v1/me makes no downstream call; its 200 body
\* is { user, entitlements, requestId } with the principal of its own
\* token, the entitlement set resolved by its own entitlement call (the
\* empty set when that call failed) and its own id, whatever other
\* requests are in flight with other principals and other sets.
C17_MeIsPerRequest ==
  \A r \in AllReqs :
    LET q == reqs[r] IN
    OnMe(q) =>
      /\ q.downCalls = 0 /\ q.layer = 0
      /\ q.user = PrincipalOf(q.auth)
      /\ (q.pc = "done" /\ q.status = 200) =>
           /\ q.body = [user |-> PrincipalOf(q.auth), entitlements |-> q.entitlements,
                        requestId |-> r]
           /\ q.entResult # "ok" => q.body.entitlements = EmptyEnt
      /\ q.pc = "done" => q.status \in {200, 429}

C17_Witness ==
  \E r1, r2 \in AllReqs :
    /\ OnMe(reqs[r1]) /\ reqs[r1].auth = BearerA /\ reqs[r1].pc = "entJson"
    /\ OnMe(reqs[r2]) /\ reqs[r2].auth = BearerB /\ reqs[r2].status = 200
    /\ reqs[r2].body.user = UserB /\ reqs[r2].body.entitlements = FeaturesOffEnt
    /\ r1 < r2

\* The entitlement address in force: ENTITLEMENTS_URL, or the default.
ConfiguredEntitlementsBase ==
  IF env.ENTITLEMENTS_URL # <<>> THEN env.ENTITLEMENTS_URL[1]
  ELSE "http://localhost:7002/entitlements/"

\* C20: the entitlement call of a request goes to the configured
\* entitlement address followed by the TenantId of its principal (the
\* organization id, else the first business, else "default"), so two
\* requests of principals with different TenantIds call different
\* addresses, with ENTITLEMENTS_URL set as well as unset.
C20_TenantKeyedLookup ==
  \A r1, r2 \in AllReqs :
    LET q1 == reqs[r1]
        q2 == reqs[r2]
    IN (q1.entCalls = 1 /\ q2.entCalls = 1) =>
         /\ q1.entUrl = <<ConfiguredEntitlementsBase, TenantId(q1.user)>>
         /\ TenantId(q1.user) # TenantId(q2.user) => q1.entUrl # q2.entUrl

\* The set has the key explicitly false in the named map.
ExplicitFalse(ent, map, key) ==
  /\ ent.tag = "object" /\ map \in ent.has
  /\ IF map = "modules" THEN ent.modules[key] = "F" ELSE ent.features[key] = "F"

\* A set whose feature values are null: falsy, and not false ("N").
FeaturesNullEnt ==
  [tag |-> "object", has |-> {"features"}, modules |-> NoModules,
   features |-> [k \in FeatureKeys |-> "N"]]
EntitlementShapes ==
  {UndefinedEnt, NullEnt, EmptyEnt, FormsOffEnt, FormsOnEnt, FeaturesOffEnt,
   FeaturesOnEnt, FeaturesNullEnt}

\* The key of the guard that stands before the request's path, if one is
\* evaluated for it: the group guards of /api/i18n, /api/webhooks and
\* /api/schedules, and the forms guard for a path under /api/forms that no
\* route takes.
GuardOf(q) ==
  IF Len(q.path) < 2 \/ q.path[1] # "api" THEN <<>>
  ELSE CASE q.path[2] = "i18n" -> <<"features", "i18n", "Feature disabled: ">>
         [] q.path[2] = "webhooks" -> <<"features", "integrationHub", "Feature disabled: ">>
         [] q.path[2] = "schedules" -> <<"features", "exportScheduler", "Feature disabled: ">>
         [] q.path[2] = "forms" /\ ~IsFormsRoute(q) ->
              <<"modules", "forms", "Module disabled: ">>
         [] OTHER -> <<>>

\* C18: a guard lets a request through unless the key is exactly false in
\* its entitlement set: it allows a missing set, a null set, a missing map,
\* a missing key, a null value and true. A request for which a guard is
\* evaluated is answered 403 "Module disabled: {key}" or "Feature
\* disabled: {key}" exactly when the key is explicitly false; the step that
\* answers 403 touches no other request, takes only the token of the
\* admission, and makes no call.
C18_GatesArePure ==
  /\ [](\A ent \in EntitlementShapes :
          /\ \A k \in ModuleKeys : moduleEnabled(k, ent) <=> ~ExplicitFalse(ent, "modules", k)
          /\ \A k \in FeatureKeys : featureEnabled(k, ent) <=> ~ExplicitFalse(ent, "features", k))
  /\ [](\A r \in AllReqs :
          LET q == reqs[r]
              g == GuardOf(q)
          IN (q.admitted /\ g # <<>>) =>
               /\ ExplicitFalse(q.entitlements, g[1], g[2]) <=> (q.pc = "done" /\ q.status = 403)
               /\ q.status = 403 => q.body = [message |-> <<g[3], g[2]>>])
  /\ [][\A r \in AllReqs :
          (reqs[r].status # 403 /\ reqs'[r].status = 403) =>
             /\ TOKENS' = TOKENS - 1 /\ env' = env
             /\ reqs'[r].user = reqs[r].user
             /\ reqs'[r].downCalls = 0 /\ reqs'[r].meterCalls = 0
             /\ \A x \in AllReqs \ {r} : reqs'[x] = reqs[x]]_vars

C18_Witness ==
  \E r \in AllReqs :
    /\ reqs[r].path = <<"api", "forms", "f1", "preview">>
    /\ reqs[r].entitlements = FormsOffEnt
    /\ reqs[r].status = 403 /\ reqs[r].body = [message |-> <<"Module disabled: ", "forms">>]

\* The feature-gated route groups and their keys.
FeatureGroups == [i18n |-> "i18n", webhooks |-> "integrationHub", schedules |-> "exportScheduler"]
InFeatureGroup(q) ==
  q.pc # "idle" /\ Len(q.path) >= 2 /\ q.path[1] = "api" /\ q.path[2] \in DOMAIN FeatureGroups

\* C19: on /api/i18n, /api/webhooks and /api/schedules the feature guard
\* comes after the rate limiter and before the proxy handler: a request not
\* admitted is never answered 403; an admitted one whose set has the
\* group's key explicitly false is answered 403 "Feature disabled: {key}"
\* and makes no downstream call; any other admitted one is in its proxy
\* handler, having made its downstream call.
C19_FeatureGateOrder ==
  \A r \in AllReqs :
    LET q == reqs[r]
        key == FeatureGroups[q.path[2]]
    IN InFeatureGroup(q) =>
         /\ ~q.admitted => (q.status # 403 /\ q.downCalls = 0)
         /\ q.admitted =>
              IF ExplicitFalse(q.entitlements, "features", key)
              THEN /\ q.pc = "done" /\ q.status = 403
                   /\ q.body = [message |-> <<"Feature disabled: ", key>>]
                   /\ q.downCalls = 0 /\ q.layer = 0
              ELSE /\ Dispatched(q) /\ q.downCalls = 1
                   /\ Stack[q.layer].pattern[2] = q.path[2]

C19_Witness ==
  \E r \in AllReqs :
    /\ reqs[r].path = <<"api", "i18n", "ns1">> /\ reqs[r].entitlements = FeaturesOffEnt
    /\ reqs[r].admitted /\ reqs[r].status = 403 /\ reqs[r].downCalls = 0

\* C21: the refill can run in every reachable state, whatever the requests
\* in flight are suspended on; a step that leaves the requests and the
\* configuration alone is a refill and sets the counter to the ceiling the
\* configuration holds at that moment, whatever the counter was; a change
\* of the configured ceiling leaves the counter alone until that refill.
C21_RefillIndependent ==
  /\ [](ENABLED Refill)
  /\ [][(reqs' = reqs /\ env' = env) =>
          (TOKENS' = RateCeiling(env) /\ sinceRefill' = 0)]_vars
  /\ [][env' # env => (TOKENS' = TOKENS /\ reqs' = reqs)]_vars

C21_Witness ==
  /\ TOKENS > RateCeiling(env)
  /\ \E r1, r2 \in AllReqs :
       /\ reqs[r1].pc = "entFetch"
       /\ reqs[r2].pc = "downJson" /\ reqs[r2].admitted

\* C22: res.json is called at most once for a request, and exactly once
\* for a request that is done, whichever way it ended (401, 429, 403, 404,
\* a local answer, a relayed answer, 502, 200 or 503 of the readiness
\* route); a response that was sent is not changed afterwards; and, the
\* outbound calls all settling, every request received is answered.
C22_ExactlyOneResponse ==
  /\ [](\A r \in AllReqs :
          /\ reqs[r].responses <= 1
          /\ reqs[r].pc = "done" <=> reqs[r].responses = 1
          /\ reqs[r].pc = "done" <=> reqs[r].status # 0)
  /\ [][\A r \in AllReqs :
          reqs[r].pc = "done" =>
            (reqs'[r] = reqs[r] \/ reqs'[r] = Idle)]_vars
  /\ \A r \in SeqReqs : (reqs[r].pc # "idle") ~> (reqs[r].pc = "done")

C22_Witness ==
  \E r \in AllReqs :
    /\ reqs[r].path = <<"readyz", "full">> /\ reqs[r].entResult = "ok"
    /\ reqs[r].probes["org"] = "throw" /\ reqs[r].probes["staff"] = "ok"
    /\ reqs[r].pc = "done" /\ reqs[r].responses = 1 /\ reqs[r].status = 503

====
